---- MODULE Spec2Model ----
(***************************************************************************)
(* Model of proc-ws-server.py: a single-threaded SocketServer.TCPServer    *)
(* whose WebSocketsHandler pushes /proc snapshots to a WebSocket client    *)
(* from a sched.scheduler that is a CLASS attribute, shared by every       *)
(* handler instance the server ever creates.                               *)
(*                                                                         *)
(* Four specifications live here:                                          *)
(*   Spec        the listener, the handlers and the shared scheduler, one  *)
(*               step for each call of update;                             *)
(*   StepSpec    the same handlers with update taken statement by          *)
(*               statement, the clock free to move in between;             *)
(*   CodecSpec   the frame codec (read_next_message / send_message)        *)
(*               applied to byte sequences;                                *)
(*   ParserSpec  ProcNetDev.update applied to the text of counter tables.  *)
(***************************************************************************)
EXTENDS Integers, Sequences, FiniteSets, TLC

\* ------------------------------------------------------------------ bounds
MaxConn == 2      \* connections the listener accepts in one run
MaxTime == 3      \* the wall clock runs over 1..MaxTime (unit: one tick delay)
MaxCounter == 1   \* interface byte counters are read from 0..MaxCounter
MaxLen == 2       \* exhaustively enumerated payload lengths 0..MaxLen
MaxGroups == 2    \* counter groups of a table, after the leading one
MaxFields == 2    \* fields of one group
MaxRows == 2      \* interfaces of a table

Conns == 1..MaxConn
CounterVals == 0..MaxCounter

\* s.enter(0.5, ...): every event is entered one delay after "now"
Delay == 1

VARIABLES
    now,            \* time.time(): the wall clock
    cur,            \* the handler the (single-threaded) server is inside; 0 = accepting
    conn,           \* conn[c]: "none" (not yet accepted), "open", "closed" (socket shut)
    handshake_done, \* self.handshake_done of handler c (truthiness)
    first,          \* first[c]: the kind of the first request of connection c, or "none"
    s,              \* WebSocketsHandler.s: the queue of the one shared scheduler
    tx, rx, ts,     \* self.tx, self.rx, self.ts of handler c (class default 0)
    resp,           \* resp[c]: "101 Switching Protocols" responses written to socket c
    framed,         \* framed[c]: a data frame has been written to socket c
    last,           \* the step just taken and its outcome
    \* ---- frame codec (CodecSpec) ----
    payload,        \* the application payload under test
    masks,          \* the 4 mask bytes the client chose
    rfile,          \* self.rfile: bytes not yet consumed by the decoder
    inbox,          \* what on_message was handed: <<>> or <<message>>
    wire,           \* the bytes send_message passed to self.request.send, in order
    cstep,          \* what the codec did last
    \* ---- one session, statement by statement (StepSpec) ----
    pc,             \* where the handler thread stands inside s.run() / update()
    \* ---- the counter table parser (ParserSpec) ----
    proc,           \* the text of /proc/net/dev now: a sequence of lines
    pnd_data,       \* ProcNetDev.data: the structure of the last good parse
    pnd_updated,    \* ProcNetDev.updated: when that parse was made
    utcnow,         \* datetime.utcnow()
    parsed          \* what the last call of ProcNetDev.update did

sessVars == <<now, cur, conn, handshake_done, first, s, tx, rx, ts, resp, framed, last>>
codecVars == <<payload, masks, rfile, inbox, wire, cstep>>
stepVars == <<pc>>
pndVars == <<proc, pnd_data, pnd_updated, utcnow, parsed>>
vars == <<sessVars, codecVars, stepVars, pndVars>>

\* ------------------------------------------------------------ session state
\* The spec's session states, read off the handler's fields.
State(c) ==
    IF conn[c] = "none" THEN "NotAccepted"
    ELSE IF conn[c] = "closed" THEN "Closed"
    ELSE IF handshake_done[c] THEN "Streaming"
    ELSE "AwaitingHandshake"

\* A pending event of handler c in the shared scheduler queue.
Pending(c) == \E ev \in s : ev.h = c

\* "no rate available": a value the spec names; a rate is num/den with den # 0.
NoRate == [num |-> 0, den |-> 0]
NoSnapshot == [transmit |-> 0, receive |-> 0, tx_rate |-> NoRate, rx_rate |-> NoRate]
NoStep == [op |-> "init", h |-> 0, by |-> 0, res |-> "none",
           prev |-> [tx |-> 0, rx |-> 0, ts |-> 0], msg |-> NoSnapshot]

\* ------------------------------------------------------------- the scheduler
\* enter called twice: two events for one handler.
EnterTwice(q, h, t) ==
    q \cup {[time |-> t + Delay, h |-> h], [time |-> t + Delay + Delay, h |-> h]}

\* sched.scheduler.enter(0.5, 1, self.update, ...) called by handler h at time t.
Enter(q, h, t) == q \cup {[time |-> t + Delay, h |-> h]}

\* sched.scheduler.run looks at q[0], the event of least time (heap order); it
\* sleeps while now < time and pops the event BEFORE calling its action.
Due(q) == {ev \in q : \A e \in q : ev.time <= e.time}

\* An exception swallowed: the handler goes on and its socket stays open.
RaiseSwallowed(c) == UNCHANGED <<conn, cur>>

\* What ends a handler: an exception leaves handle(), finish() runs and the
\* server shuts the socket (handle_error, shutdown_request), then accepts again.
Raise(c) ==
    /\ conn' = [conn EXCEPT ![c] = "closed"]
    /\ cur' = 0

\* ---------------------------------------------------------------- setup
\* WebSocketsHandler.setup, run by the server for each accepted connection:
\* handshake_done = False and one event entered into the SHARED scheduler,
\* before any byte of the connection has been read.
setup(c) ==
    /\ cur = 0
    /\ conn[c] = "none"
    /\ \A d \in Conns : d < c => conn[d] # "none"
    /\ conn' = [conn EXCEPT ![c] = "open"]
    /\ handshake_done' = [handshake_done EXCEPT ![c] = FALSE]
    /\ s' = Enter(s, c, now)
    /\ cur' = c
    /\ last' = [NoStep EXCEPT !.op = "setup", !.h = c, !.by = c]
    /\ UNCHANGED <<now, first, tx, rx, ts, resp, framed, codecVars, stepVars, pndVars>>

\* -------------------------------------------------------------- handshake
\* The kinds of request the peer may send (recv(1024) of line 198):
\*   "upgrade"    header block with Upgrade: websocket and Sec-WebSocket-Key
\*   "noupgrade"  header block whose Upgrade header is absent or different
\*   "nokey"      Upgrade: websocket but no Sec-WebSocket-Key (KeyError, line 203)
\*   "malformed"  no "\r\n" after strip(), e.g. the empty read of a closed
\*                peer (IndexError, line 199)
ReqKinds == {"upgrade", "noupgrade", "nokey", "malformed"}

\* The outcome of one call of handshake() on a request of this kind; sendok says
\* whether request.send(response) succeeded.
\*   "return"  line 201: plain return, nothing sent, the socket stays open
\*   "raise"   an exception leaves handshake() and handle()
\*   "run"     response sent, handshake_done set, s.run() entered
HandshakeOutcome(kind, sendok) ==
    IF kind = "noupgrade" THEN "return"
    ELSE IF kind = "upgrade" /\ sendok THEN "run"
    ELSE "raise"

\* handle() calls handshake() while handshake_done is false (lines 166-168).
handshake(c, kind, sendok) ==
    /\ cur = c
    /\ conn[c] = "open"
    /\ ~handshake_done[c]
    /\ first' = [first EXCEPT ![c] = IF @ = "none" THEN kind ELSE @]
    /\ LET out == HandshakeOutcome(kind, sendok) IN
       /\ last' = [NoStep EXCEPT !.op = "handshake", !.h = c, !.by = c, !.res = out]
       /\ IF out = "return"
            THEN UNCHANGED <<conn, cur, handshake_done, resp>>
          ELSE IF out = "run"
            THEN /\ resp' = [resp EXCEPT ![c] = @ + 1]
                 /\ handshake_done' = [handshake_done EXCEPT ![c] = TRUE]
                 /\ UNCHANGED <<conn, cur>>
          ELSE /\ Raise(c)
               /\ UNCHANGED <<handshake_done, resp>>
    /\ UNCHANGED <<now, s, tx, rx, ts, framed, codecVars, stepVars, pndVars>>

\* ----------------------------------------------------------------- update
\* tx_rate = diff_tx / diff_ts (lines 239-244): true division by a float, kept
\* exact as numerator and denominator.
Rate(diff, dt) == [num |-> diff, den |-> dt]
Negative(r) == r.num * r.den < 0

\* The re-arm moved into a "finally": a failed write re-arms as well.
RearmsAfterFailedSend(res) == res \in {"sent", "sendfail"}

\* Whether the tick re-arms (line 255 is reached only when nothing raised).
Rearms(res) == res = "sent"

\* update without lines 246-248: the readings are never stored.
updateKeepsBaseline(h, t, txv, rxv, srcok, sendok) ==
    LET diff_ts == t - ts[h]
        res == IF ~srcok THEN "readfail"
               ELSE IF diff_ts = 0 THEN "divzero"
               ELSE IF conn[h] # "open" \/ ~sendok THEN "sendfail"
               ELSE "sent"
    IN [res |-> res, tx |-> tx[h], rx |-> rx[h], ts |-> ts[h],
        msg |-> IF res = "sent"
                  THEN [transmit |-> txv, receive |-> rxv,
                        tx_rate |-> Rate(txv - tx[h], diff_ts),
                        rx_rate |-> Rate(rxv - rx[h], diff_ts)]
                  ELSE NoSnapshot]

\* One execution of handler h's update at time t, reading counters txv, rxv.
\*   srcok   the /proc readers and the counter table parse all succeeded
\*   sendok  the socket accepted the frame (never, once h's socket is shut)
\* res: "readfail" (lines 217-236 raised), "divzero" (lines 243-244 raised),
\*      "sendfail" (line 254 raised), "sent" (frame written, line 255 reached).
update(h, t, txv, rxv, srcok, sendok) ==
    LET diff_ts == t - ts[h]
        res == IF ~srcok THEN "readfail"
               ELSE IF diff_ts = 0 THEN "divzero"
               ELSE IF conn[h] # "open" \/ ~sendok THEN "sendfail"
               ELSE "sent"
        stored == res \in {"sendfail", "sent"}
    IN [res |-> res,
        tx |-> IF stored THEN txv ELSE tx[h],
        rx |-> IF stored THEN rxv ELSE rx[h],
        ts |-> IF stored THEN t ELSE ts[h],
        msg |-> IF res = "sent"
                  THEN [transmit |-> txv, receive |-> rxv,
                        tx_rate |-> Rate(txv - tx[h], diff_ts),
                        rx_rate |-> Rate(rxv - rx[h], diff_ts)]
                  ELSE NoSnapshot]

\* The scheduler run from handle() whatever handshake_done says.
InRunBeforeHandshake(c) == cur = c /\ conn[c] = "open"

\* Handler c is inside s.run() (line 211), entered from its handshake.
InRun(c) == cur = c /\ conn[c] = "open" /\ handshake_done[c]

\* One iteration of sched.run inside handler c: the head event is due, is
\* popped, and its action (the update of handler ev.h, which need not be c)
\* runs to its end or to an exception, which leaves run(), handshake() and
\* handle() of c.
run(c, ev, txv, rxv, srcok, sendok) ==
    /\ InRun(c)
    /\ ev \in Due(s)
    /\ ev.time <= now
    /\ LET h == ev.h
           u == update(h, now, txv, rxv, srcok, sendok)
           \* a handler whose event is not re-armed is referenced by nothing any
           \* more (its socket is shut, or is being shut by this exception): the
           \* object and its fields are gone
           kept == Rearms(u.res)
       IN /\ tx' = [tx EXCEPT ![h] = IF kept THEN u.tx ELSE 0]
          /\ rx' = [rx EXCEPT ![h] = IF kept THEN u.rx ELSE 0]
          /\ ts' = [ts EXCEPT ![h] = IF kept THEN u.ts ELSE 0]
          /\ framed' = [framed EXCEPT ![h] = @ \/ u.res = "sent"]
          /\ s' = IF Rearms(u.res) THEN Enter(s \ {ev}, h, now) ELSE s \ {ev}
          /\ IF u.res = "sent" THEN UNCHANGED <<conn, cur>> ELSE Raise(c)
          /\ last' = [op |-> "update", h |-> h, by |-> c, res |-> u.res,
                      prev |-> IF u.res = "sent"
                                 THEN [tx |-> tx[h], rx |-> rx[h], ts |-> ts[h]]
                                 ELSE NoStep.prev,
                      msg |-> u.msg]
    /\ UNCHANGED <<now, handshake_done, first, resp, codecVars, stepVars, pndVars>>

\* s.run() returns when the queue is empty (sched.py: while q); handshake()
\* then returns to handle(), whose loop finds handshake_done set and calls
\* read_next_message (lines 169-170) on the next inbound frame: a well-formed
\* frame is decoded and handed to on_message, a malformed one raises.
returned(c, frameok) ==
    /\ InRun(c)
    /\ s = {}
    /\ last' = [NoStep EXCEPT !.op = "read_next_message", !.h = c, !.by = c,
                             !.res = IF frameok THEN "message" ELSE "raise"]
    /\ IF frameok THEN UNCHANGED <<conn, cur>> ELSE Raise(c)
    /\ UNCHANGED <<now, handshake_done, first, s, tx, rx, ts, resp, framed, codecVars, stepVars, pndVars>>

\* ------------------------------------------------------------------ clock
\* Time passes (the scheduler's time.sleep, or the server waiting in accept).
ClockAdvance ==
    /\ now < MaxTime
    /\ now' = now + 1
    /\ last' = [NoStep EXCEPT !.op = "clock"]
    /\ UNCHANGED <<cur, conn, handshake_done, first, s, tx, rx, ts, resp, framed, codecVars, stepVars, pndVars>>

\* time.time() is the wall clock: it can be set back (date, ntp step).
ClockStepBack ==
    /\ now > 1
    /\ now' = now - 1
    /\ last' = [NoStep EXCEPT !.op = "clock"]
    /\ UNCHANGED <<cur, conn, handshake_done, first, s, tx, rx, ts, resp, framed, codecVars, stepVars, pndVars>>

\* --------------------------------------------------------- the specification
\* Between events: the thread is in the loop of sched.run (or not in run at all).
StepIdle == pc = [at |-> "loop", h |-> 0, wrote |-> FALSE]

\* ProcNetDev not looked at: an empty dict, nothing read.
EmptyDict == [k \in {} |-> 0]
PndIdle ==
    /\ proc = <<>>
    /\ pnd_data = EmptyDict
    /\ pnd_updated = 0
    /\ utcnow = 0
    /\ parsed = "idle"

CodecIdle ==
    /\ payload = <<>>
    /\ masks = <<0, 0, 0, 0>>
    /\ rfile = <<>>
    /\ inbox = <<>>
    /\ wire = <<>>
    /\ cstep = "idle"

Init ==
    /\ now = 1
    /\ cur = 0
    /\ conn = [c \in Conns |-> "none"]
    /\ handshake_done = [c \in Conns |-> FALSE]
    /\ first = [c \in Conns |-> "none"]
    /\ s = {}
    /\ tx = [c \in Conns |-> 0]
    /\ rx = [c \in Conns |-> 0]
    /\ ts = [c \in Conns |-> 0]
    /\ resp = [c \in Conns |-> 0]
    /\ framed = [c \in Conns |-> FALSE]
    /\ last = NoStep
    /\ CodecIdle
    /\ StepIdle
    /\ PndIdle

Accept == \E c \in Conns : setup(c)
\* What the environment decides in one handshake and in one tick; a failed
\* read makes the rest irrelevant, so it is drawn once.
Requests == {<<kind, TRUE>> : kind \in ReqKinds} \cup {<<"upgrade", FALSE>>}
Readings ==
    {[srcok |-> FALSE, tx |-> 0, rx |-> 0, sendok |-> FALSE]} \cup
    [srcok : {TRUE}, tx : CounterVals, rx : CounterVals, sendok : BOOLEAN]

Handshake == \E c \in Conns, rq \in Requests : handshake(c, rq[1], rq[2])
\* The next step of a connection whose handshake succeeded.
Tick == \E c \in Conns :
            IF s = {}
              THEN \E frameok \in BOOLEAN : returned(c, frameok)
              ELSE \E ev \in s, r \in Readings :
                       run(c, ev, r.tx, r.rx, r.srcok, r.sendok)

Next == Accept \/ Handshake \/ Tick \/ ClockAdvance \/ ClockStepBack

Spec == Init /\ [][Next]_vars

\* ====================================================================
\* The same sessions statement by statement (specification StepSpec): the
\* clock may move between the scheduler's look at the time and line 237,
\* and between the statements of update().
\* ====================================================================
\* Line 255 moved before line 254: the event is entered before the write.
NextStatementArmFirst(at) ==
    CASE at = "update" -> "enter"
      [] at = "enter"  -> "write"
      [] at = "write"  -> "loop"

\* The order of update(): build and store (217-250), write (254), enter (255),
\* then back to the loop of sched.run.
NextStatement(at) ==
    CASE at = "update" -> "write"
      [] at = "write"  -> "enter"
      [] at = "enter"  -> "loop"

\* sched.run: the due event is popped and its action called (a plain call: the
\* loop goes on only when the action has returned).
pop(c, ev) ==
    /\ InRun(c)
    /\ pc.at = "loop"
    /\ ev \in Due(s)
    /\ ev.time <= now
    /\ s' = s \ {ev}
    /\ pc' = [at |-> "update", h |-> ev.h, wrote |-> FALSE]
    /\ last' = [NoStep EXCEPT !.op = "pop", !.h = ev.h, !.by = c]
    /\ UNCHANGED <<now, cur, conn, handshake_done, first, tx, rx, ts, resp, framed,
                   codecVars, pndVars>>

\* The handler whose update raised: its event is gone, nothing refers to it.
Dropped(c, h) ==
    /\ Raise(c)
    /\ pc' = [at |-> "loop", h |-> 0, wrote |-> FALSE]
    /\ tx' = [tx EXCEPT ![h] = 0]
    /\ rx' = [rx EXCEPT ![h] = 0]
    /\ ts' = [ts EXCEPT ![h] = 0]

\* Lines 217-250: the sources are read, time.time() is read (237), the rates
\* are computed (239-244), the readings stored (246-248), the message built.
build(c, txv, rxv, srcok) ==
    /\ InRun(c)
    /\ pc.at = "update"
    /\ LET h == pc.h
           u == update(h, now, txv, rxv, srcok, TRUE)
           raised == u.res \in {"readfail", "divzero"}
       IN /\ IF raised
               THEN Dropped(c, h)
               ELSE /\ tx' = [tx EXCEPT ![h] = u.tx]
                    /\ rx' = [rx EXCEPT ![h] = u.rx]
                    /\ ts' = [ts EXCEPT ![h] = u.ts]
                    /\ pc' = [pc EXCEPT !.at = NextStatement(pc.at)]
                    /\ UNCHANGED <<conn, cur>>
          /\ last' = [op |-> "update", h |-> h, by |-> c,
                      res |-> IF raised THEN u.res ELSE "built",
                      prev |-> IF u.res = "sent"
                                 THEN [tx |-> tx[h], rx |-> rx[h], ts |-> ts[h]]
                                 ELSE NoStep.prev,
                      msg |-> u.msg]
    /\ UNCHANGED <<now, handshake_done, first, s, resp, framed, codecVars, pndVars>>

\* Line 254: send_message writes the frame to the socket of handler pc.h.
write(c, sendok) ==
    /\ InRun(c)
    /\ pc.at = "write"
    /\ LET h == pc.h
           ok == sendok /\ conn[h] = "open"
       IN /\ IF ok
               THEN /\ pc' = [pc EXCEPT !.at = NextStatement(pc.at), !.wrote = TRUE]
                    /\ UNCHANGED <<conn, cur, tx, rx, ts>>
               ELSE Dropped(c, h)
          /\ framed' = [framed EXCEPT ![h] = @ \/ ok]
          /\ last' = [NoStep EXCEPT !.op = "send_message", !.h = h, !.by = c,
                                   !.res = IF ok THEN "sent" ELSE "sendfail"]
    /\ UNCHANGED <<now, handshake_done, first, s, resp, codecVars, pndVars>>

\* Line 255: sc.enter(0.5, 1, self.update, (sc,)).
enter(c) ==
    /\ InRun(c)
    /\ pc.at = "enter"
    /\ s' = Enter(s, pc.h, now)
    /\ pc' = IF NextStatement(pc.at) = "loop"
               THEN [at |-> "loop", h |-> 0, wrote |-> FALSE]
               ELSE [pc EXCEPT !.at = NextStatement(pc.at)]
    /\ last' = [NoStep EXCEPT !.op = "enter", !.h = pc.h, !.by = c]
    /\ UNCHANGED <<now, cur, conn, handshake_done, first, tx, rx, ts, resp, framed,
                   codecVars, pndVars>>

\* A connection accepted when the scheduler holds no event of an earlier one:
\* StepSpec follows the sessions whose queue holds their own event only (what
\* an event left behind does is followed in Spec).
AcceptFresh == \E c \in Conns : s = {} /\ setup(c)
Pop == \E c \in Conns, ev \in s : pop(c, ev)
Build == \E c \in Conns, r \in {q \in Readings : q.sendok = q.srcok} :
             build(c, r.tx, r.rx, r.srcok)
Write == \E c \in Conns, sendok \in BOOLEAN : write(c, sendok)
Arm == \E c \in Conns : enter(c)

StepNext ==
    AcceptFresh \/ Handshake \/ ClockAdvance \/ ClockStepBack \/ Pop \/ Build \/ Write \/ Arm

StepSpec == Init /\ [][StepNext]_vars

\* ====================================================================
\* The frame codec (specification CodecSpec)
\* ====================================================================
Bytes == 0..255

\* a ^ b on the low n bits (ord(char) ^ mask, line 181)
RECURSIVE BitXor(_, _, _)
BitXor(a, b, n) ==
    IF n = 0 THEN 0
    ELSE (((a % 2) + (b % 2)) % 2) + 2 * BitXor(a \div 2, b \div 2, n - 1)

\* struct.unpack(">H", b)[0], struct.unpack(">Q", b)[0]: big-endian unsigned
RECURSIVE Unpack(_)
Unpack(b) ==
    IF b = <<>> THEN 0
    ELSE Unpack(SubSeq(b, 1, Len(b) - 1)) * 256 + b[Len(b)]

\* struct.pack(">H", n) (k = 2), struct.pack(">Q", n) (k = 8)
RECURSIVE Pack(_, _)
Pack(n, k) == IF k = 0 THEN <<>> ELSE Append(Pack(n \div 256, k - 1), n % 256)

\* file.read(n) on the buffered rfile: the next n bytes, fewer only at EOF
Read(stream, n) == SubSeq(stream, 1, IF n < Len(stream) THEN n ELSE Len(stream))
Rest(stream, n) == SubSeq(stream, (IF n < Len(stream) THEN n ELSE Len(stream)) + 1, Len(stream))

\* The mask index taken one too far: masks[(len(decoded) + 1) % 4].
UnmaskShifted(data, m) ==
    [i \in 1..Len(data) |-> BitXor(data[i], m[(i % 4) + 1], 8)]

\* lines 179-181: decoded += chr(ord(char) ^ masks[len(decoded) % 4])
Unmask(data, m) ==
    [i \in 1..Len(data) |-> BitXor(data[i], m[((i - 1) % 4) + 1], 8)]

\* read_next_message on the stream: what on_message is handed and what is left
\* unread, or the exception. Every read may come back short at EOF:
\*   rfile.read(2)[1]   IndexError when fewer than 2 bytes came
\*   struct.unpack      struct.error when the extended length is short
\*   masks[... % 4]     IndexError when a payload byte meets a missing mask byte
read_next_message(stream) ==
    LET hdr == Read(stream, 2)
        s1 == Rest(stream, 2)
        code == IF Len(hdr) = 2 THEN hdr[2] % 128 ELSE 0
        extn == IF code = 126 THEN 2 ELSE IF code = 127 THEN 8 ELSE 0
        ext == Read(s1, extn)
        s2 == Rest(s1, extn)
        length == IF extn = 0 THEN code ELSE Unpack(ext)
        m == Read(s2, 4)
        s3 == Rest(s2, 4)
        data == Read(s3, length)
        s4 == Rest(s3, length)
    IN IF Len(hdr) < 2 \/ Len(ext) < extn
           \/ (\E i \in 1..Len(data) : ((i - 1) % 4) + 1 > Len(m))
         THEN [ok |-> FALSE, msg |-> <<>>, rest |-> <<>>, length |-> 0]
         ELSE [ok |-> TRUE, msg |-> Unmask(data, m), rest |-> s4, length |-> length]

\* The length tier of send_message with its second comparison off by one.
LengthBytesShortTier(n) ==
    IF n <= 125 THEN <<n>>
    ELSE IF n >= 126 /\ n < 65535 THEN <<126>> \o Pack(n, 2)
    ELSE <<127>> \o Pack(n, 8)

\* lines 186-194: the length bytes send_message sends after the first byte
LengthBytes(n) ==
    IF n <= 125 THEN <<n>>
    ELSE IF n >= 126 /\ n <= 65535 THEN <<126>> \o Pack(n, 2)
    ELSE <<127>> \o Pack(n, 8)

\* send_message: the bytes handed to self.request.send, in order
send_message(message) == <<129>> \o LengthBytes(Len(message)) \o message

\* A client frame as section 4.3 of the spec describes what the decoder is to
\* accept: control byte, length code with the mask bit set, extended length,
\* 4 mask bytes, payload XORed with mask[position mod 4].
ClientFrame(p, m) ==
    LET n == Len(p)
        len == IF n <= 125 THEN <<128 + n>>
               ELSE IF n <= 65535 THEN <<128 + 126>> \o Pack(n, 2)
               ELSE <<128 + 127>> \o Pack(n, 8)
    IN <<129>> \o len \o m
         \o [i \in 1..n |-> BitXor(p[i], m[((i - 1) % 4) + 1], 8)]

\* ---- inputs
SmallBytes == {0, 90, 255}
RECURSIVE SeqsUpTo(_, _)
SeqsUpTo(S, n) ==
    IF n = 0 THEN {<<>>}
    ELSE LET shorter == SeqsUpTo(S, n - 1)
         IN shorter \cup {Append(q, b) : q \in {x \in shorter : Len(x) = n - 1}, b \in S}

\* the lengths on both sides of every tier boundary
BoundaryLens == {125, 126, 65535, 65536}
Pattern(n) == [i \in 1..n |-> (i * 37 + 11) % 256]

Payloads == SeqsUpTo(SmallBytes, MaxLen) \cup {Pattern(n) : n \in BoundaryLens}
MaskSet == {<<0, 0, 0, 0>>, <<1, 2, 4, 8>>, <<255, 90, 0, 165>>}

SessionIdle ==
    /\ now = 1
    /\ cur = 0
    /\ conn = [c \in Conns |-> "none"]
    /\ handshake_done = [c \in Conns |-> FALSE]
    /\ first = [c \in Conns |-> "none"]
    /\ s = {}
    /\ tx = [c \in Conns |-> 0]
    /\ rx = [c \in Conns |-> 0]
    /\ ts = [c \in Conns |-> 0]
    /\ resp = [c \in Conns |-> 0]
    /\ framed = [c \in Conns |-> FALSE]
    /\ last = NoStep

CodecInit ==
    /\ SessionIdle
    /\ StepIdle
    /\ PndIdle
    /\ payload \in Payloads
    /\ masks \in MaskSet
    /\ rfile = <<>>
    /\ inbox = <<>>
    /\ wire = <<>>
    /\ cstep = "idle"

\* The client writes one masked frame carrying the payload.
ClientSends ==
    /\ cstep = "idle"
    /\ rfile' = ClientFrame(payload, masks)
    /\ cstep' = "framed"
    /\ UNCHANGED <<payload, masks, inbox, wire, sessVars, stepVars, pndVars>>

\* The client writes only the first k bytes of that frame and closes: the
\* reads of the decoder meet EOF. The cut falls in the header or within the
\* first MaxLen payload bytes.
ClientSendsCut ==
    /\ cstep = "idle"
    /\ \E frame \in {ClientFrame(payload, masks)} :
          \E k \in 0..(Len(frame) - Len(payload) + MaxLen) :
              /\ k < Len(frame)
              /\ rfile' = SubSeq(frame, 1, k)
    /\ cstep' = "cut"
    /\ UNCHANGED <<payload, masks, inbox, wire, sessVars, stepVars, pndVars>>

\* read_next_message runs on what the client wrote.
Decode ==
    /\ cstep \in {"framed", "cut"}
    /\ LET r == read_next_message(rfile) IN
       IF r.ok
         THEN /\ inbox' = <<r.msg>>
              /\ rfile' = r.rest
              /\ cstep' = IF cstep = "framed" THEN "decoded" ELSE "decoded_cut"
         ELSE /\ cstep' = IF cstep = "framed" THEN "decode_error" ELSE "eof_error"
              /\ UNCHANGED <<inbox, rfile>>
    /\ UNCHANGED <<payload, masks, wire, sessVars, stepVars, pndVars>>

\* send_message runs on the payload.
Encode ==
    /\ cstep = "idle"
    /\ wire' = send_message(payload)
    /\ cstep' = "sent"
    /\ UNCHANGED <<payload, masks, rfile, inbox, sessVars, stepVars, pndVars>>

CodecNext == ClientSends \/ ClientSendsCut \/ Decode \/ Encode

CodecSpec == CodecInit /\ [][CodecNext]_vars

\* ====================================================================
\* The counter table parser (specification ParserSpec)
\* ====================================================================
\* Text is a sequence of one-character strings, a file a sequence of lines;
\* positions are counted from 0 as Python counts them.
NL == "\n"
IsSpace(ch) == ch \in {" ", NL}
DigitChars == <<"0", "1", "2", "3", "4", "5", "6", "7", "8", "9">>

\* a dict with d[k] = v assigned
Put(d, k, v) == [x \in DOMAIN d \cup {k} |-> IF x = k THEN v ELSE d[x]]

\* str.find(ch, start): the least position >= start holding ch, -1 if none
Find(line, ch, start) ==
    LET hits == {i \in 0..(Len(line) - 1) : i >= start /\ line[i + 1] = ch}
    IN IF hits = {} THEN -1 ELSE CHOOSE i \in hits : \A j \in hits : i <= j

\* line[a:b]; b = -1 stands for None (up to the end)
Slice(line, a, b) ==
    LET e == IF b = -1 \/ b > Len(line) THEN Len(line) ELSE b
    IN SubSeq(line, a + 1, e)

RECURSIVE LStrip(_)
LStrip(q) == IF q # <<>> /\ IsSpace(q[1]) THEN LStrip(Tail(q)) ELSE q
RECURSIVE RStrip(_)
RStrip(q) ==
    IF q # <<>> /\ IsSpace(q[Len(q)]) THEN RStrip(SubSeq(q, 1, Len(q) - 1)) ELSE q
\* str.strip()
Strip(q) == RStrip(LStrip(q))

RECURSIVE StripNL(_)
\* str.strip("\n")
StripNL(q) ==
    IF q # <<>> /\ q[1] = NL THEN StripNL(Tail(q))
    ELSE IF q # <<>> /\ q[Len(q)] = NL THEN StripNL(SubSeq(q, 1, Len(q) - 1))
    ELSE q

\* str.lower() on the letters the tables use
Lower(q) ==
    [i \in 1..Len(q) |-> CASE q[i] = "R" -> "r" [] q[i] = "T" -> "t"
                           [] q[i] = "C" -> "c" [] q[i] = "I" -> "i"
                           [] OTHER -> q[i]]

\* str.split(): the runs of non-blank characters
RECURSIVE Split(_)
Split(q) ==
    LET r == LStrip(q)
        blanks == {i \in 1..Len(r) : IsSpace(r[i])}
        n == IF blanks = {} THEN Len(r)
             ELSE (CHOOSE i \in blanks : \A j \in blanks : i <= j) - 1
    IN IF r = <<>> THEN <<>>
       ELSE <<SubSeq(r, 1, n)>> \o Split(SubSeq(r, n + 1, Len(r)))

\* int(tok) and whether it raises ValueError
IsInt(tok) == tok # <<>> /\ \A i \in 1..Len(tok) : \E d \in 1..10 : DigitChars[d] = tok[i]
RECURSIVE int(_)
int(tok) ==
    IF tok = <<>> THEN 0
    ELSE int(SubSeq(tok, 1, Len(tok) - 1)) * 10
           + (CHOOSE d \in 0..9 : DigitChars[d + 1] = tok[Len(tok)])

\* The loop of lines 97-105 entered with a position that is true (not 0, not
\* None): one section appended, and again while the position found is true.
RECURSIVE Scan(_, _)
Scan(headerline, position) ==
    LET last_position == position + 1
        found == Find(headerline, "|", last_position)
        section == [first |-> last_position, end |-> found,
                    name |-> Lower(Strip(Slice(headerline, last_position, found)))]
    IN <<section>> \o (IF found = -1 \/ found = 0 THEN <<>>
                       ELSE Scan(headerline, found))

\* lines 95-108: the sections of the header line, the first one popped
Sections(headerline) == Tail(Scan(headerline, -1))

\* lines 111-114: the labels of each section, cut from its span of the label line
Labels(labelline, sections) ==
    [i \in 1..Len(sections) |-> Split(Slice(labelline, sections[i].first, sections[i].end))]

\* lines 137-141: tmp for one section, data read from absolute position start
RECURSIVE LabelDict(_, _, _, _, _)
LabelDict(labs, tokens, start, j, tmp) ==
    IF j > Len(labs) THEN tmp
    ELSE LabelDict(labs, tokens, start, j + 1,
                   Put(tmp, labs[j], int(tokens[start + j])))

\* lines 133-145 for one row: interfaces[name], or the exception of line 140
\* (IndexError on a short row, ValueError on a token that is no integer)
RECURSIVE Groups(_, _, _, _, _, _)
Groups(sections, labels, tokens, i, start, acc) ==
    IF i > Len(sections) THEN [ok |-> TRUE, d |-> acc]
    ELSE LET labs == labels[i]
             fits == /\ start + Len(labs) <= Len(tokens)
                     /\ \A j \in 1..Len(labs) : IsInt(tokens[start + j])
         IN IF ~fits THEN [ok |-> FALSE, d |-> acc]
            ELSE Groups(sections, labels, tokens, i + 1, start + Len(labs),
                        Put(acc, sections[i].name,
                            LabelDict(labs, tokens, start, 1, EmptyDict)))

\* lines 118-145: the rows from row k on, interfaces so far in acc
RECURSIVE Rows(_, _, _, _, _)
Rows(lines, k, sections, labels, acc) ==
    IF k > Len(lines) THEN [ok |-> TRUE, interfaces |-> acc]
    ELSE LET info == StripNL(lines[k])
             colon == Find(info, ":", 0)
             name == Strip(Slice(info, 0, colon))
             tokens == Split(Slice(info, colon + 1, -1))
             g == Groups(sections, labels, tokens, 1, 0, EmptyDict)
         IN IF colon = -1 THEN [ok |-> FALSE, interfaces |-> acc]
            ELSE IF ~g.ok THEN [ok |-> FALSE, interfaces |-> Put(acc, name, g.d)]
            ELSE Rows(lines, k + 1, sections, labels, Put(acc, name, g.d))

\* ProcNetDev.update up to line 145 on the text of the file: the local
\* interfaces, or that an exception was raised (interfaces then holds what had
\* been built when it was raised)
Parse(text) ==
    LET headerline == IF Len(text) >= 1 THEN text[1] ELSE <<>>
        labelline == IF Len(text) >= 2 THEN StripNL(text[2]) ELSE <<>>
        sections == Sections(headerline)
        labels == Labels(labelline, sections)
    IN IF Find(headerline, "|", 0) = -1
         THEN [ok |-> FALSE, interfaces |-> EmptyDict]
         ELSE Rows(text, 3, sections, labels, EmptyDict)

\* lines 148-149 made unconditional: whatever was built is stored
CommitPartial(r, old) == r.interfaces

\* lines 148-149 are reached only when nothing raised: self.data is then the
\* new structure as a whole, and otherwise what it was
Commit(r, old) == IF r.ok THEN r.interfaces ELSE old

\* ---- the tables the kernel prints
GroupNames == << <<"R", "x">>, <<"t", "x">>, <<"C", "o">> >>
GroupKeys == << <<"r", "x">>, <<"t", "x">>, <<"c", "o">> >>
LabelNames == << <<"b", "y">>, <<"p", "k">>, <<"e", "r">>, <<"d", "r">> >>
IfNames == << <<"l", "o">>, <<"e", "0">>, <<"w", "1">> >>

\* the fields of group i when it has n of them: groups share field names, at
\* different places
Fields(i, n) == [j \in 1..n |-> LabelNames[((i + j - 2) % Len(LabelNames)) + 1]]

\* fields before group i: the absolute position of its first counter
RECURSIVE Offset(_, _)
Offset(widths, i) == IF i = 1 THEN 0 ELSE Offset(widths, i - 1) + widths[i - 1]

\* the counter of row r at absolute position p
ValueOf(seed, r, p) == seed * 100 + r * 10 + p

RECURSIVE Flatten(_)
Flatten(qs) == IF qs = <<>> THEN <<>> ELSE Head(qs) \o Flatten(Tail(qs))
RECURSIVE Digits(_)
Digits(n) ==
    IF n < 10 THEN <<DigitChars[n + 1]>>
    ELSE Digits(n \div 10) \o <<DigitChars[(n % 10) + 1]>>
Join(words) == Flatten([j \in 1..Len(words) |->
                           IF j = 1 THEN words[j] ELSE <<" ">> \o words[j]])
Pad(q, w) == q \o [i \in 1..(w - Len(q)) |-> " "]

\* A table: whether the header has text before its first delimiter, the
\* number of fields of each group, the rows, their counters, and what is
\* wrong with the text ("nopipe": no delimiter in the header; "nocolon": the
\* last row has no colon; "short": the last row lacks its last counter).
Breaks == {"none", "nopipe", "nocolon", "short"}
Tables ==
    [lead : BOOLEAN,
     widths : SeqsUpTo(1..MaxFields, MaxGroups) \ {<<>>},
     rows : 1..MaxRows,
     seed : CounterVals,
     break : Breaks]

\* The text of /proc/net/dev for a table: two header lines with the
\* delimiters in the same columns, then one line for each interface.
Render(t) ==
    LET n == Len(t.widths)
        bar == IF t.break = "nopipe" THEN " " ELSE "|"
        cell(i) == Join(Fields(i, t.widths[i]))
        w(i) == IF Len(cell(i)) > Len(GroupNames[i]) + 1
                  THEN Len(cell(i)) ELSE Len(GroupNames[i]) + 1
        headerline ==
            (IF t.lead THEN <<"I", "n">> ELSE <<>>)
              \o Flatten([i \in 1..n |-> <<bar>> \o Pad(<<" ">> \o GroupNames[i], w(i))])
              \o <<NL>>
        labelline ==
            (IF t.lead THEN <<"f", "a">> ELSE <<>>)
              \o Flatten([i \in 1..n |-> <<"|">> \o Pad(cell(i), w(i))])
              \o <<NL>>
        total == Offset(t.widths, n) + t.widths[n]
        row(r) ==
            LET cut == r = t.rows
                count == IF cut /\ t.break = "short" THEN total - 1 ELSE total
            IN <<" ">> \o IfNames[r]
                 \o <<IF cut /\ t.break = "nocolon" THEN " " ELSE ":">>
                 \o Flatten([p \in 1..count |-> <<" ">> \o Digits(ValueOf(t.seed, r, p - 1))])
                 \o <<NL>>
    IN <<headerline, labelline>> \o [r \in 1..t.rows |-> row(r)]

\* What the table says: interface -> group -> field -> counter.
Expected(t) ==
    [name \in {IfNames[r] : r \in 1..t.rows} |->
        LET r == CHOOSE k \in 1..t.rows : IfNames[k] = name IN
        [key \in {GroupKeys[i] : i \in 1..Len(t.widths)} |->
            LET i == CHOOSE k \in 1..Len(t.widths) : GroupKeys[k] = key IN
            [field \in {Fields(i, t.widths[i])[j] : j \in 1..t.widths[i]} |->
                LET j == CHOOSE k \in 1..t.widths[i] : Fields(i, t.widths[i])[k] = field
                IN ValueOf(t.seed, r, Offset(t.widths, i) + j - 1)]]]

\* ProcNetDev(): the constructor has parsed the table of that moment without
\* an exception (lines 36-47).
ParserInit ==
    /\ SessionIdle
    /\ StepIdle
    /\ CodecIdle
    /\ proc \in {t \in Tables : t.break = "none"}
    /\ pnd_data = Parse(Render(proc)).interfaces
    /\ pnd_updated = 1
    /\ utcnow = 1
    /\ parsed = "ok"

\* The kernel's counters move, interfaces come and go, and a read may find
\* the text damaged; the layout of the header stays. What changes between two
\* reads is one change.
Rewrite ==
    /\ parsed # "unread"
    /\ parsed' = "unread"
    /\ \E t \in Tables :
          /\ t.lead = proc.lead
          /\ t.widths = proc.widths
          /\ t # proc
          /\ proc' = t
    /\ UNCHANGED <<pnd_data, pnd_updated, utcnow, sessVars, codecVars, stepVars>>

\* ProcNetDev.update (lines 83-149), at a later time than the call before.
ProcNetDev_update ==
    /\ utcnow < MaxTime
    /\ utcnow' = utcnow + 1
    /\ LET r == Parse(Render(proc)) IN
       /\ pnd_data' = Commit(r, pnd_data)
       /\ pnd_updated' = IF r.ok THEN utcnow' ELSE pnd_updated
       /\ parsed' = IF r.ok THEN "ok" ELSE "raise"
    /\ UNCHANGED <<proc, sessVars, codecVars, stepVars>>

ParserNext == Rewrite \/ ProcNetDev_update

ParserSpec == ParserInit /\ [][ParserNext]_vars

\* C7 - Masked frame round-trip: decoding the client frame of a payload and
\* a mask hands on_message exactly that payload and consumes the whole frame,
\* and never fails, in every length tier.
C7_MaskedRoundTrip ==
    /\ cstep # "decode_error"
    /\ cstep = "decoded" => (inbox = <<payload>> /\ rfile = <<>>)

C7_Witness ==
    /\ cstep = "decoded"
    /\ Len(payload) = 65536
    /\ masks = <<255, 90, 0, 165>>
    /\ inbox = <<payload>>

\* What a peer reads back from an unmasked frame: the length its header
\* declares and the bytes after the header.
PeerLength(w) ==
    IF w[2] <= 125 THEN w[2]
    ELSE IF w[2] = 126 THEN w[3] * 256 + w[4]
    ELSE Unpack(SubSeq(w, 3, 10))
PeerHeaderLen(w) == IF w[2] <= 125 THEN 2 ELSE IF w[2] = 126 THEN 4 ELSE 10

\* C8 - Server frame encoding: the bytes sent are 129, then the length in
\* the one tier its value selects with the mask bit clear, then the payload,
\* whole and unchanged, and nothing else.
C8_ServerFrameEncoding ==
    cstep = "sent" =>
        LET n == Len(payload) IN
        /\ wire[1] = 129
        /\ wire[2] < 128
        /\ wire[2] = (IF n <= 125 THEN n ELSE IF n <= 65535 THEN 126 ELSE 127)
        /\ PeerLength(wire) = n
        /\ Len(wire) = PeerHeaderLen(wire) + n
        /\ SubSeq(wire, PeerHeaderLen(wire) + 1, Len(wire)) = payload

C8_Witness ==
    /\ cstep = "sent"
    /\ Len(payload) = 65535
    /\ wire[2] = 126 /\ wire[3] = 255 /\ wire[4] = 255
    /\ Len(wire) = 65539

\* ====================================================================
\* Claims about the session scheduler (specification Spec)
\* ====================================================================
Failed == {"readfail", "divzero", "sendfail", "raise"}

\* The tick just taken belonged to the session that ran it.
OwnTick == last.op = "update" /\ last.h = last.by
\* The tick just taken belonged to another (earlier) handler than the one
\* whose s.run() executed it.
StaleTick == last.op = "update" /\ last.h # last.by

\* C1 - Scheduler resilience: when a tick of a streaming session fails to
\* read or parse one of its sources, the session is still streaming and its
\* next tick is armed.
C1_ReadFailureKeepsStreaming ==
    (OwnTick /\ last.res = "readfail")
        => (State(last.h) = "Streaming" /\ Pending(last.h))

\* C2 - Handshake failure closes the session: a connection whose first
\* request is not an upgrade request is Closed from then on (so it is never
\* awaiting a handshake again, and never Streaming).
C2_NonUpgradeRequestCloses ==
    \A c \in Conns : first[c] = "noupgrade" => State(c) = "Closed"

\* C3 - Failure isolation: a step in which something fails in one session
\* (a handshake that raises, a tick that raises) leaves the state of every
\* other session as it was; in particular a stale tick of an earlier handler
\* does not end the session that runs it.
C3_FailureIsolation ==
    [][\A c \in Conns :
          (last'.res \in Failed /\ last'.h # c) => State(c)' = State(c)]_vars

\* C4 - Handshake precedes streaming: a first data frame is written to a
\* socket only after its 101 response was written; at most one 101 response
\* is ever written per connection; the session states only move forward,
\* AwaitingHandshake, Streaming, Closed, and Closed is terminal.
Forward ==
    {<<"NotAccepted", "AwaitingHandshake">>, <<"AwaitingHandshake", "Streaming">>,
     <<"AwaitingHandshake", "Closed">>, <<"Streaming", "Closed">>}

C4_HandshakePrecedesStreaming ==
    [][\A c \in Conns :
          /\ (framed'[c] /\ ~framed[c]) => (resp[c] = 1 /\ State(c) = "Streaming")
          /\ (last'.op = "update" /\ last'.res = "sent") => resp[last'.h] = 1
          /\ resp'[c] <= 1
          /\ (State(c)' # State(c)) => <<State(c), State(c)'>> \in Forward]_vars

C4_Witness ==
    \E c \in Conns : framed[c] /\ resp[c] = 1 /\ State(c) = "Closed"

\* C5 - Cancellation by connection close: a closed connection has no pending
\* event in the scheduler, and no tick of a closed connection is executed.
C5_NoTickAfterClose ==
    \A c \in Conns :
        State(c) = "Closed" =>
            (~Pending(c) /\ ~(StaleTick /\ last.h = c))

\* C6 - Transport error ends the session: a tick whose frame write fails
\* does not re-arm and leaves its session Closed, and a Closed session with
\* no pending event never ticks nor is re-armed again.
C6_TransportErrorEndsLoop ==
    [][/\ \A h \in Conns :
            (last'.op = "update" /\ last'.res = "sendfail" /\ last'.h = h)
                => (State(h)' = "Closed" /\ ~Pending(h)')
       /\ \A h \in Conns :
            (State(h) = "Closed" /\ ~Pending(h))
                => (~(last'.op = "update" /\ last'.h = h) /\ ~Pending(h)'
                    /\ State(h)' = "Closed")]_vars

C6_Witness == OwnTick /\ last.res = "sendfail" /\ framed[last.h]

\* The tick just taken read the class defaults tx = rx = ts = 0 (lines
\* 155-157): handler h had not stored a reading of its own yet.
FirstTick == last.op = "update" /\ last.prev.ts = 0

\* C9 - First sample has no rate: the snapshot sent by the first tick of a
\* session reports "no rate available" for both directions.
C9_FirstSampleNoRate ==
    (FirstTick /\ last.res = "sent")
        => (last.msg.tx_rate = NoRate /\ last.msg.rx_rate = NoRate)

\* C10 - No negative rate: no snapshot that is sent carries a negative rate;
\* a tick that reads a counter lower than the one before reports "no rate
\* available" for it, and records the new reading as the baseline.
C10_NoNegativeRate ==
    (last.op = "update" /\ last.res = "sent") =>
        /\ ~Negative(last.msg.tx_rate)
        /\ ~Negative(last.msg.rx_rate)
        /\ last.msg.transmit < last.prev.tx
              => (last.msg.tx_rate = NoRate /\ tx[last.h] = last.msg.transmit)
        /\ last.msg.receive < last.prev.rx
              => (last.msg.rx_rate = NoRate /\ rx[last.h] = last.msg.receive)

\* a rate r is the quotient a / b
IsQuotient(r, a, b) == r.den # 0 /\ b # 0 /\ r.num * b = a * r.den

\* C11 - Rate from consecutive readings: a tick of a session that is not its
\* first, reads counters not below the stored ones and finds time elapsed,
\* sends (reading - stored value) / (time - stored time) for each direction;
\* every tick that sends stores its readings and its time; and nothing but a
\* tick of the same handler changes what is stored.
C11_RateFromConsecutiveReadings ==
    [][\A h \in Conns :
          /\ (last'.op = "update" /\ last'.h = h /\ last'.res = "sent") =>
                /\ tx'[h] = last'.msg.transmit
                /\ rx'[h] = last'.msg.receive
                /\ ts'[h] = now'
                /\ (ts[h] # 0 /\ now' > ts[h] /\ last'.msg.transmit >= tx[h])
                      => IsQuotient(last'.msg.tx_rate,
                                    last'.msg.transmit - tx[h], now' - ts[h])
                /\ (ts[h] # 0 /\ now' > ts[h] /\ last'.msg.receive >= rx[h])
                      => IsQuotient(last'.msg.rx_rate,
                                    last'.msg.receive - rx[h], now' - ts[h])
          /\ ~(last'.op = "update" /\ last'.h = h)
                => (tx'[h] = tx[h] /\ rx'[h] = rx[h] /\ ts'[h] = ts[h])]_vars

C11_Witness ==
    /\ last.op = "update" /\ last.res = "sent"
    /\ last.prev.ts # 0 /\ last.prev.tx = 0 /\ last.msg.transmit = 1
    /\ last.msg.tx_rate = [num |-> 1, den |-> 1]

\* C14 - Timer armed on handshake success only: a streaming session has a
\* pending tick, and a pending tick belongs only to a connection whose 101
\* response was sent (none to a connection awaiting its handshake or closed
\* by a failed one).
C14_ArmedOnlyAfterHandshake ==
    \A c \in Conns :
        /\ State(c) = "Streaming" => Pending(c)
        /\ Pending(c) => resp[c] = 1

\* C15 - One timer per connection: the scheduler never holds two events of
\* one connection, holds exactly one for a streaming session, and every
\* event belongs to one accepted connection.
EventsOf(c) == {ev \in s : ev.h = c}

C15_OneTimerPerConnection ==
    /\ \A c \in Conns :
          /\ Cardinality(EventsOf(c)) <= 1
          /\ State(c) = "Streaming" => Cardinality(EventsOf(c)) = 1
    /\ \A ev \in s : ev.h \in Conns /\ conn[ev.h] # "none"

C15_Witness ==
    \E c, d \in Conns :
        /\ c # d
        /\ State(c) = "Streaming" /\ framed[c]
        /\ Cardinality(EventsOf(c)) = 1
        /\ Cardinality(EventsOf(d)) = 1

\* C19 - Inbound frames are never read while streaming: the scheduler run
\* entered by a successful handshake never finds its queue empty, so it never
\* returns to the loop of handle() and read_next_message is never executed:
\* no inbound frame, well-formed or malformed, is decoded or ends a session.
C19_ControlStaysInRun ==
    /\ last.op # "read_next_message"
    /\ \A c \in Conns : InRun(c) => s # {}

C19_Witness ==
    \E c \in Conns :
        /\ InRun(c)
        /\ last.op = "update" /\ last.by = c /\ last.h = c /\ last.res = "sent"
        /\ last.prev.ts # 0

\* C16 - Ticks are strictly sequential: while a tick of a handler is between
\* its pop and its re-arm no other tick of that handler is pending, a tick
\* begins only from the loop of the scheduler (none in progress), and an
\* update arms the next tick only when its own frame write has returned.
C16_TicksSequential ==
    [][\A h \in Conns :
          /\ (pc'.at # "loop" /\ pc'.h = h) => ~Pending(h)'
          /\ (pc'.at = "update" /\ pc'.h = h /\ pc.at # "update") => pc.at = "loop"
          /\ (~Pending(h) /\ Pending(h)' /\ last'.op # "setup")
                => (pc.h = h /\ pc.wrote)]_vars

C16_Witness ==
    /\ pc.at = "write"
    /\ State(pc.h) = "Streaming"
    /\ framed[pc.h]
    /\ ~Pending(pc.h)

\* C17 - Division-by-zero guard: the rate computation never raises a division
\* error, and a tick that is not the first of its session and finds no time
\* elapsed, or time gone backwards, reports no rate available.
C17_DivisionGuard ==
    last.op = "update" =>
        /\ last.res # "divzero"
        /\ (last.res = "built" /\ last.prev.ts # 0 /\ ts[last.h] <= last.prev.ts)
              => (last.msg.tx_rate = NoRate /\ last.msg.rx_rate = NoRate)

\* C18 - No partial frame delivered: a frame whose bytes end before the frame
\* is complete hands nothing to on_message, and whatever on_message is handed
\* is as long as the length its frame declares.
C18_NoPartialFrame ==
    [][/\ cstep = "cut" => inbox' = <<>>
       /\ inbox' # inbox => Len(inbox'[1]) = read_next_message(rfile).length]_vars

\* C12 - Counter table parsing by flattened position: a read of a well-formed
\* table leaves, for every interface, every group after the leading one and
\* every field of that group, the counter at the field's absolute position:
\* exactly the structure the table describes.
C12_FlattenedPosition ==
    [][(utcnow' # utcnow /\ proc.break = "none") => pnd_data' = Expected(proc)]_vars

\* C13 - Atomic failure on parse error: a read of a header without delimiter,
\* or of a row without colon, raises; a read that raises leaves data and
\* updated as they were; a read that does not raise replaces both.
C13_AtomicFailure ==
    [][utcnow' # utcnow =>
          /\ proc.break \in {"nopipe", "nocolon"} => parsed' = "raise"
          /\ parsed' = "raise" => (pnd_data' = pnd_data /\ pnd_updated' = pnd_updated)
          /\ parsed' = "ok" => (pnd_data' = Parse(Render(proc)).interfaces
                                  /\ pnd_updated' = utcnow')]_vars

C13_Witness ==
    /\ parsed = "raise"
    /\ proc.break = "nocolon"
    /\ proc.rows = 2
    /\ proc.lead
    /\ pnd_updated < utcnow
    /\ pnd_data # EmptyDict
    /\ pnd_data # Parse(Render(proc)).interfaces

====
